---------------------------- MODULE Spec2Model ----------------------------
(***************************************************************************)
(* Termination conditions of autogen_agentchat.conditions._terminations.   *)
(*                                                                         *)
(* One predicate instance (`self`) is constructed with a configuration     *)
(* drawn from a small set, and is then driven by the operations of its     *)
(* public interface: __call__ (evaluate a batch of messages), reset,       *)
(* set (ExternalTermination only), the `terminated` property, and the      *)
(* _to_config / _from_config pair.  Every method of every class is an      *)
(* operator on the instance record; the actions apply them.                *)
(***************************************************************************)
EXTENDS Integers, Sequences, FiniteSets

(***************************************************************************)
(* Bounds of the model.                                                    *)
(***************************************************************************)
\* longest batch handed to one __call__
MaxBatch == 2
\* longest run of operations that is recorded and replayed after reset
MaxTrace == 3
\* largest max_messages ceiling a MaxMessageTermination is constructed with
MaxCeiling == 3
\* largest token ceiling a TokenUsageTermination is constructed with
MaxToken == 2
\* cap on each running token total (a total that no ceiling watches grows for ever)
MaxUsage == 4
\* largest value of the monotonic clock
MaxClock == 3
\* largest timeout_seconds a TimeoutTermination is constructed with
MaxTimeout == 2
\* the calls of one instance that may be suspended at once
MaxAwait == 2

(***************************************************************************)
(* Optional values (`X | None`): None is the empty tuple, a present value  *)
(* v is the one-element tuple <<v>>.                                        *)
(***************************************************************************)
None == <<>>

Some(v) == <<v>>

Get(o) == o[1]

Optional(S) == {None} \cup {Some(v) : v \in S}

(***************************************************************************)
(* The outcome of a method call: a returned value or a raised exception.   *)
(***************************************************************************)
Return(v) == [tag |-> "return", value |-> v]

Raise(e) == [tag |-> "raise", value |-> e]

TerminatedException == Raise("TerminatedException")

\* StopMessage(content=..., source=...); the f-string of the content is kept
\* as its format and the values interpolated into it
StopMessage(fmt, args, source) ==
    Some([content |-> [fmt |-> fmt, args |-> args], source |-> source])

(***************************************************************************)
(* Messages.  A message has a class (`type`), a source, a rendering        *)
(* (to_text(), a sequence of words), an optional usage record, and, by     *)
(* class, a handoff target or a list of function execution results.        *)
(***************************************************************************)
Sources == {"agentA", "agentB"}

Usage(p, c) == Some([prompt_tokens |-> p, completion_tokens |-> c])

Msg(type, source, text, usage, target, content) ==
    [type |-> type, source |-> source, text |-> text, models_usage |-> usage,
     target |-> target, content |-> content]

Messages ==
    { Msg("TextMessage", "agentA", <<"DONE">>, Usage(1, 2), None, <<>>),
      Msg("TextMessage", "agentB", <<"ok", "DONE">>, None, None, <<>>),
      Msg("StopMessage", "agentB", <<"bye">>, Usage(0, 1), None, <<>>),
      Msg("HandoffMessage", "agentA", <<"to", "user">>, None, Some("user"), <<>>),
      Msg("HandoffMessage", "agentB", <<"hi", "user">>, None, Some("user"), <<>>),
      Msg("ToolCallExecutionEvent", "agentB", <<"g", "f">>, Usage(2, 1), None, <<"g", "f">>) }

RECURSIVE SeqsUpTo(_, _)
SeqsUpTo(S, n) ==
    IF n = 0 THEN {<<>>}
    ELSE LET shorter == SeqsUpTo(S, n - 1)
         IN  shorter \cup {Append(s, x) : s \in {t \in shorter : Len(t) = n - 1}, x \in S}

\* the batches a __call__ is given
Batches == SeqsUpTo(Messages, MaxBatch)

\* isinstance(m, BaseChatMessage): the event classes are the others
IsChatMessage(m) == m.type \in {"TextMessage", "StopMessage", "HandoffMessage"}

\* Python's `sub in text` on the rendering
Contains(sub, text) ==
    \E i \in 1..(Len(text) + 1) :
        /\ i + Len(sub) - 1 <= Len(text)
        /\ SubSeq(text, i, i + Len(sub) - 1) = sub

\* Python's `x in seq`
InSeq(x, seq) == \E i \in 1..Len(seq) : seq[i] = x

\* the indices of a batch
Indices(messages) == 1..Len(messages)

\* the first of the indices `hits` of a batch, 0 when there is none: the
\* message at which `for message in messages: if ...: return` returns
FirstIndex(hits) ==
    IF hits = {} THEN 0 ELSE CHOOSE i \in hits : \A j \in hits : i <= j

(***************************************************************************)
(* StopMessageTermination                                                  *)
(***************************************************************************)
StopMessageTermination_init ==
    [cls |-> "StopMessageTermination", _terminated |-> FALSE]

StopMessageTermination_terminated(self) == self._terminated

\* a __call__ that clears the flag when it rejects the call
StopMessageTermination_call_autoreset(self, messages) ==
    IF self._terminated
    THEN [self |-> [self EXCEPT !._terminated = FALSE], out |-> TerminatedException]
    ELSE IF FirstIndex({k \in Indices(messages) : messages[k].type = "StopMessage"}) # 0
    THEN [self |-> [self EXCEPT !._terminated = TRUE],
          out |-> Return(StopMessage("Stop message received", <<>>, "StopMessageTermination"))]
    ELSE [self |-> self, out |-> Return(None)]

StopMessageTermination_call(self, messages) ==
    IF self._terminated THEN [self |-> self, out |-> TerminatedException]
    ELSE IF FirstIndex({k \in Indices(messages) : messages[k].type = "StopMessage"}) # 0
    THEN [self |-> [self EXCEPT !._terminated = TRUE],
          out |-> Return(StopMessage("Stop message received", <<>>, "StopMessageTermination"))]
    ELSE [self |-> self, out |-> Return(None)]

StopMessageTermination_reset(self) == [self EXCEPT !._terminated = FALSE]

StopMessageTermination_to_config(self) == [schema |-> "StopMessageTerminationConfig"]

StopMessageTermination_from_config(config) == StopMessageTermination_init

(***************************************************************************)
(* MaxMessageTermination                                                   *)
(***************************************************************************)
MaxMessageTermination_init(max_messages, include_agent_event) ==
    [cls |-> "MaxMessageTermination", _max_messages |-> max_messages,
     _message_count |-> 0, _include_agent_event |-> include_agent_event]

MaxMessageTermination_terminated(self) == self._message_count >= self._max_messages

\* len([m for m in messages if self._include_agent_event or isinstance(m, BaseChatMessage)])
MaxMessageTermination_qualifying(self, messages) ==
    Cardinality({i \in 1..Len(messages) :
                    self._include_agent_event \/ IsChatMessage(messages[i])})

\* a __call__ that fires only once the count is above the ceiling
MaxMessageTermination_call_off_by_one(self, messages) ==
    IF MaxMessageTermination_terminated(self)
    THEN [self |-> self, out |-> TerminatedException]
    ELSE LET new == [self EXCEPT !._message_count =
                                    @ + MaxMessageTermination_qualifying(self, messages)]
         IN  IF new._message_count > new._max_messages
             THEN [self |-> new,
                   out |-> Return(StopMessage(
                       "Maximum number of messages {} reached, current message count: {}",
                       <<new._max_messages, new._message_count>>, "MaxMessageTermination"))]
             ELSE [self |-> new, out |-> Return(None)]

\* a __call__ that stops counting at the ceiling
MaxMessageTermination_call_clamped(self, messages) ==
    IF MaxMessageTermination_terminated(self)
    THEN [self |-> self, out |-> TerminatedException]
    ELSE LET sum == self._message_count + MaxMessageTermination_qualifying(self, messages)
             new == [self EXCEPT !._message_count =
                                    IF sum > self._max_messages
                                    THEN self._max_messages ELSE sum]
         IN  IF new._message_count >= new._max_messages
             THEN [self |-> new,
                   out |-> Return(StopMessage(
                       "Maximum number of messages {} reached, current message count: {}",
                       <<new._max_messages, new._message_count>>, "MaxMessageTermination"))]
             ELSE [self |-> new, out |-> Return(None)]

MaxMessageTermination_call(self, messages) ==
    IF MaxMessageTermination_terminated(self)
    THEN [self |-> self, out |-> TerminatedException]
    ELSE LET new == [self EXCEPT !._message_count =
                                    @ + MaxMessageTermination_qualifying(self, messages)]
         IN  IF new._message_count >= new._max_messages
             THEN [self |-> new,
                   out |-> Return(StopMessage(
                       "Maximum number of messages {} reached, current message count: {}",
                       <<new._max_messages, new._message_count>>, "MaxMessageTermination"))]
             ELSE [self |-> new, out |-> Return(None)]

MaxMessageTermination_reset(self) == [self EXCEPT !._message_count = 0]

MaxMessageTermination_to_config(self) ==
    [schema |-> "MaxMessageTerminationConfig", max_messages |-> self._max_messages,
     include_agent_event |-> self._include_agent_event]

MaxMessageTermination_from_config(config) ==
    MaxMessageTermination_init(config.max_messages, config.include_agent_event)

(***************************************************************************)
(* TextMentionTermination                                                  *)
(***************************************************************************)
TextMentionTermination_init(text, sources) ==
    [cls |-> "TextMentionTermination", _termination_text |-> text,
     _terminated |-> FALSE, _sources |-> sources]

TextMentionTermination_terminated(self) == self._terminated

\* a variant of the test that scans the messages of every source
TextMentionTermination_matches_any_source(self, m) ==
    Contains(self._termination_text, m.text)

\* the message is not skipped by the `continue` and its rendering holds the text
TextMentionTermination_matches(self, m) ==
    /\ ~(self._sources # None /\ ~InSeq(m.source, Get(self._sources)))
    /\ Contains(self._termination_text, m.text)

TextMentionTermination_call(self, messages) ==
    IF self._terminated THEN [self |-> self, out |-> TerminatedException]
    ELSE IF FirstIndex({k \in Indices(messages) : TextMentionTermination_matches(self, messages[k])}) # 0
    THEN [self |-> [self EXCEPT !._terminated = TRUE],
          out |-> Return(StopMessage("Text '{}' mentioned", <<self._termination_text>>,
                                     "TextMentionTermination"))]
    ELSE [self |-> self, out |-> Return(None)]

TextMentionTermination_reset(self) == [self EXCEPT !._terminated = FALSE]

\* the configuration schema has the one field `text`
TextMentionTermination_to_config(self) ==
    [schema |-> "TextMentionTerminationConfig", text |-> self._termination_text]

\* cls(text=config.text): sources takes its default, None
TextMentionTermination_from_config(config) == TextMentionTermination_init(config.text, None)

(***************************************************************************)
(* FunctionalTermination.  The user's function is one of a few named       *)
(* functions; `expression` is the one of the class's docstring, which      *)
(* reads messages[-1] and so raises IndexError on the empty batch.         *)
(***************************************************************************)
Funcs == {"expression", "has_handoff", "never"}

FuncApply(func, messages) ==
    CASE func = "expression" ->
            IF Len(messages) = 0 THEN Raise("IndexError")
            ELSE Return(messages[Len(messages)].type = "StopMessage")
      [] func = "has_handoff" ->
            Return(\E i \in 1..Len(messages) : messages[i].type = "HandoffMessage")
      [] OTHER -> Return(FALSE)

FunctionalTermination_init(func, is_coroutine) ==
    [cls |-> "FunctionalTermination", _func |-> func, _is_coroutine |-> is_coroutine,
     _terminated |-> FALSE]

FunctionalTermination_terminated(self) == self._terminated

\* a tail of __call__ that marks the condition terminated when the function raises
FunctionalTermination_finish_latches_on_error(self, result) ==
    IF result.tag = "raise"
    THEN [self |-> [self EXCEPT !._terminated = TRUE], out |-> result]
    ELSE IF result.value = TRUE
    THEN [self |-> [self EXCEPT !._terminated = TRUE],
          out |-> Return(StopMessage("Functional termination condition met", <<>>,
                                     "FunctionalTermination"))]
    ELSE [self |-> self, out |-> Return(None)]

\* the tail of __call__, once the function's result is known
FunctionalTermination_finish(self, result) ==
    IF result.tag = "raise" THEN [self |-> self, out |-> result]
    ELSE IF result.value = TRUE
    THEN [self |-> [self EXCEPT !._terminated = TRUE],
          out |-> Return(StopMessage("Functional termination condition met", <<>>,
                                     "FunctionalTermination"))]
    ELSE [self |-> self, out |-> Return(None)]

\* __call__ run to completion with no other call on the instance in between
FunctionalTermination_call(self, messages) ==
    IF self._terminated THEN [self |-> self, out |-> TerminatedException]
    ELSE FunctionalTermination_finish(self, FuncApply(self._func, messages))

FunctionalTermination_reset(self) == [self EXCEPT !._terminated = FALSE]

(***************************************************************************)
(* TokenUsageTermination                                                   *)
(***************************************************************************)
\* a variant of __init__ that demands all three ceilings
TokenUsageTermination_init_demands_all(max_total_token, max_prompt_token, max_completion_token) ==
    IF max_total_token = None \/ max_prompt_token = None \/ max_completion_token = None
    THEN Raise("ValueError")
    ELSE Return([cls |-> "TokenUsageTermination",
                 _max_total_token |-> max_total_token,
                 _max_prompt_token |-> max_prompt_token,
                 _max_completion_token |-> max_completion_token,
                 _total_token_count |-> 0,
                 _prompt_token_count |-> 0,
                 _completion_token_count |-> 0])

\* __init__ raises ValueError when no ceiling is given; otherwise the instance
TokenUsageTermination_init(max_total_token, max_prompt_token, max_completion_token) ==
    IF max_total_token = None /\ max_prompt_token = None /\ max_completion_token = None
    THEN Raise("ValueError")
    ELSE Return([cls |-> "TokenUsageTermination",
                 _max_total_token |-> max_total_token,
                 _max_prompt_token |-> max_prompt_token,
                 _max_completion_token |-> max_completion_token,
                 _total_token_count |-> 0,
                 _prompt_token_count |-> 0,
                 _completion_token_count |-> 0])

TokenUsageTermination_terminated(self) ==
    \/ (self._max_total_token # None /\ self._total_token_count >= Get(self._max_total_token))
    \/ (self._max_prompt_token # None /\ self._prompt_token_count >= Get(self._max_prompt_token))
    \/ (self._max_completion_token # None
            /\ self._completion_token_count >= Get(self._max_completion_token))

\* a loop body that stops adding once a ceiling has been reached
TokenUsageTermination_add_unless_reached(self, message) ==
    IF message.models_usage # None /\ ~TokenUsageTermination_terminated(self)
    THEN LET u == Get(message.models_usage)
         IN  [self EXCEPT !._prompt_token_count = @ + u.prompt_tokens,
                          !._completion_token_count = @ + u.completion_tokens,
                          !._total_token_count = @ + u.prompt_tokens + u.completion_tokens]
    ELSE self

\* the body of the loop over the batch, for one message
TokenUsageTermination_add(self, message) ==
    IF message.models_usage # None
    THEN LET u == Get(message.models_usage)
         IN  [self EXCEPT !._prompt_token_count = @ + u.prompt_tokens,
                          !._completion_token_count = @ + u.completion_tokens,
                          !._total_token_count = @ + u.prompt_tokens + u.completion_tokens]
    ELSE self

RECURSIVE TokenUsageTermination_accumulate(_, _, _)
\* the instance after the loop has handled messages[1..n]
TokenUsageTermination_accumulate(self, messages, n) ==
    IF n = 0 THEN self
    ELSE TokenUsageTermination_add(
             TokenUsageTermination_accumulate(self, messages, n - 1), messages[n])

\* a __call__ that adds the batch to the totals before it tests `terminated`
TokenUsageTermination_call_adds_before_check(self, messages) ==
    LET new == TokenUsageTermination_accumulate(self, messages, Len(messages))
    IN  IF TokenUsageTermination_terminated(self)
        THEN [self |-> new, out |-> TerminatedException]
        ELSE IF TokenUsageTermination_terminated(new)
        THEN [self |-> new,
              out |-> Return(StopMessage(
                  "Token usage limit reached, total token count: {}, prompt token count: {}, completion token count: {}.",
                  <<new._total_token_count, new._prompt_token_count,
                    new._completion_token_count>>,
                  "TokenUsageTermination"))]
        ELSE [self |-> new, out |-> Return(None)]

TokenUsageTermination_call(self, messages) ==
    IF TokenUsageTermination_terminated(self)
    THEN [self |-> self, out |-> TerminatedException]
    ELSE LET new == TokenUsageTermination_accumulate(self, messages, Len(messages))
         IN  IF TokenUsageTermination_terminated(new)
             THEN [self |-> new,
                   out |-> Return(StopMessage(
                       "Token usage limit reached, total token count: {}, prompt token count: {}, completion token count: {}.",
                       <<new._total_token_count, new._prompt_token_count,
                         new._completion_token_count>>,
                       "TokenUsageTermination"))]
             ELSE [self |-> new, out |-> Return(None)]

TokenUsageTermination_reset(self) ==
    [self EXCEPT !._total_token_count = 0,
                 !._prompt_token_count = 0,
                 !._completion_token_count = 0]

TokenUsageTermination_to_config(self) ==
    [schema |-> "TokenUsageTerminationConfig",
     max_total_token |-> self._max_total_token,
     max_prompt_token |-> self._max_prompt_token,
     max_completion_token |-> self._max_completion_token]

TokenUsageTermination_from_config(config) ==
    TokenUsageTermination_init(config.max_total_token, config.max_prompt_token,
                               config.max_completion_token)

(***************************************************************************)
(* HandoffTermination                                                      *)
(***************************************************************************)
HandoffTermination_init(target) ==
    [cls |-> "HandoffTermination", _terminated |-> FALSE, _target |-> target]

HandoffTermination_terminated(self) == self._terminated

HandoffTermination_matches(self, m) ==
    m.type = "HandoffMessage" /\ m.target = Some(self._target)

\* a __call__ that returns the stop message without recording that it did
HandoffTermination_call_forgets(self, messages) ==
    IF self._terminated THEN [self |-> self, out |-> TerminatedException]
    ELSE LET i == FirstIndex({k \in Indices(messages) : HandoffTermination_matches(self, messages[k])})
         IN  IF i # 0
             THEN [self |-> self,
                   out |-> Return(StopMessage("Handoff to {} from {} detected.",
                                              <<self._target, messages[i].source>>,
                                              "HandoffTermination"))]
             ELSE [self |-> self, out |-> Return(None)]

HandoffTermination_call(self, messages) ==
    IF self._terminated THEN [self |-> self, out |-> TerminatedException]
    ELSE LET i == FirstIndex({k \in Indices(messages) : HandoffTermination_matches(self, messages[k])})
         IN  IF i # 0
             THEN [self |-> [self EXCEPT !._terminated = TRUE],
                   out |-> Return(StopMessage("Handoff to {} from {} detected.",
                                              <<self._target, messages[i].source>>,
                                              "HandoffTermination"))]
             ELSE [self |-> self, out |-> Return(None)]

HandoffTermination_reset(self) == [self EXCEPT !._terminated = FALSE]

HandoffTermination_to_config(self) ==
    [schema |-> "HandoffTerminationConfig", target |-> self._target]

HandoffTermination_from_config(config) == HandoffTermination_init(config.target)

(***************************************************************************)
(* TimeoutTermination.  `now` is the reading of time.monotonic().          *)
(***************************************************************************)
TimeoutTermination_init(timeout_seconds, now) ==
    [cls |-> "TimeoutTermination", _timeout_seconds |-> timeout_seconds,
     _start_time |-> now, _terminated |-> FALSE]

TimeoutTermination_terminated(self) == self._terminated

\* a __call__ that sets the flag when the timeout has not elapsed
TimeoutTermination_call_inverted(self, messages, now) ==
    IF self._terminated THEN [self |-> self, out |-> TerminatedException]
    ELSE IF (now - self._start_time) >= self._timeout_seconds
    THEN [self |-> [self EXCEPT !._terminated = TRUE],
          out |-> Return(StopMessage("Timeout of {} seconds reached",
                                     <<self._timeout_seconds>>, "TimeoutTermination"))]
    ELSE [self |-> [self EXCEPT !._terminated = TRUE], out |-> Return(None)]

\* a __call__ that fires only after the timeout has been exceeded
TimeoutTermination_call_strict(self, messages, now) ==
    IF self._terminated THEN [self |-> self, out |-> TerminatedException]
    ELSE IF (now - self._start_time) > self._timeout_seconds
    THEN [self |-> [self EXCEPT !._terminated = TRUE],
          out |-> Return(StopMessage("Timeout of {} seconds reached",
                                     <<self._timeout_seconds>>, "TimeoutTermination"))]
    ELSE [self |-> self, out |-> Return(None)]

TimeoutTermination_call(self, messages, now) ==
    IF self._terminated THEN [self |-> self, out |-> TerminatedException]
    ELSE IF (now - self._start_time) >= self._timeout_seconds
    THEN [self |-> [self EXCEPT !._terminated = TRUE],
          out |-> Return(StopMessage("Timeout of {} seconds reached",
                                     <<self._timeout_seconds>>, "TimeoutTermination"))]
    ELSE [self |-> self, out |-> Return(None)]

\* a reset() that does not read the clock again
TimeoutTermination_reset_keeps_start(self, now) == [self EXCEPT !._terminated = FALSE]

\* a reset() that restarts the window only when the condition had fired
TimeoutTermination_reset_only_after_firing(self, now) ==
    [self EXCEPT !._start_time = IF self._terminated THEN now ELSE @,
                 !._terminated = FALSE]

TimeoutTermination_reset(self, now) ==
    [self EXCEPT !._start_time = now, !._terminated = FALSE]

TimeoutTermination_to_config(self) ==
    [schema |-> "TimeoutTerminationConfig", timeout_seconds |-> self._timeout_seconds]

TimeoutTermination_from_config(config, now) ==
    TimeoutTermination_init(config.timeout_seconds, now)

(***************************************************************************)
(* ExternalTermination                                                     *)
(***************************************************************************)
ExternalTermination_init ==
    [cls |-> "ExternalTermination", _terminated |-> FALSE, _setted |-> FALSE]

ExternalTermination_terminated(self) == self._terminated

\* a set() that also re-opens a terminated condition
ExternalTermination_set_reopens(self) ==
    [self EXCEPT !._setted = TRUE, !._terminated = FALSE]

ExternalTermination_set(self) == [self EXCEPT !._setted = TRUE]

\* a __call__ that clears the pending flag when it fires
ExternalTermination_call_clears_setted(self, messages) ==
    IF self._terminated THEN [self |-> self, out |-> TerminatedException]
    ELSE IF self._setted
    THEN [self |-> [self EXCEPT !._terminated = TRUE, !._setted = FALSE],
          out |-> Return(StopMessage("External termination requested", <<>>,
                                     "ExternalTermination"))]
    ELSE [self |-> self, out |-> Return(None)]

ExternalTermination_call(self, messages) ==
    IF self._terminated THEN [self |-> self, out |-> TerminatedException]
    ELSE IF self._setted
    THEN [self |-> [self EXCEPT !._terminated = TRUE],
          out |-> Return(StopMessage("External termination requested", <<>>,
                                     "ExternalTermination"))]
    ELSE [self |-> self, out |-> Return(None)]

\* a reset() that leaves the pending flag set
ExternalTermination_reset_keeps_setted(self) == [self EXCEPT !._terminated = FALSE]

ExternalTermination_reset(self) == [self EXCEPT !._terminated = FALSE, !._setted = FALSE]

ExternalTermination_to_config(self) == [schema |-> "ExternalTerminationConfig"]

ExternalTermination_from_config(config) == ExternalTermination_init

(***************************************************************************)
(* SourceMatchTermination                                                  *)
(***************************************************************************)
SourceMatchTermination_init(sources) ==
    [cls |-> "SourceMatchTermination", _sources |-> sources, _terminated |-> FALSE]

SourceMatchTermination_terminated(self) == self._terminated

\* a __call__ that scans the whole batch and reports the last match
SourceMatchTermination_call_last_match(self, messages) ==
    IF self._terminated THEN [self |-> self, out |-> TerminatedException]
    ELSE IF Len(messages) = 0 THEN [self |-> self, out |-> Return(None)]
    ELSE LET hits == {k \in Indices(messages) : InSeq(messages[k].source, self._sources)}
         IN  IF hits # {}
             THEN [self |-> [self EXCEPT !._terminated = TRUE],
                   out |-> Return(StopMessage(
                       "'{}' answered",
                       <<messages[CHOOSE i \in hits : \A j \in hits : j <= i].source>>,
                       "SourceMatchTermination"))]
             ELSE [self |-> self, out |-> Return(None)]

SourceMatchTermination_call(self, messages) ==
    IF self._terminated THEN [self |-> self, out |-> TerminatedException]
    ELSE IF Len(messages) = 0 THEN [self |-> self, out |-> Return(None)]
    ELSE LET i == FirstIndex({k \in Indices(messages) : InSeq(messages[k].source, self._sources)})
         IN  IF i # 0
             THEN [self |-> [self EXCEPT !._terminated = TRUE],
                   out |-> Return(StopMessage("'{}' answered", <<messages[i].source>>,
                                              "SourceMatchTermination"))]
             ELSE [self |-> self, out |-> Return(None)]

SourceMatchTermination_reset(self) == [self EXCEPT !._terminated = FALSE]

SourceMatchTermination_to_config(self) ==
    [schema |-> "SourceMatchTerminationConfig", sources |-> self._sources]

SourceMatchTermination_from_config(config) == SourceMatchTermination_init(config.sources)

(***************************************************************************)
(* TextMessageTermination                                                  *)
(***************************************************************************)
TextMessageTermination_init(source) ==
    [cls |-> "TextMessageTermination", _terminated |-> FALSE, _source |-> source]

TextMessageTermination_terminated(self) == self._terminated

TextMessageTermination_matches(self, m) ==
    m.type = "TextMessage" /\ (self._source = None \/ Some(m.source) = self._source)

TextMessageTermination_call(self, messages) ==
    IF self._terminated THEN [self |-> self, out |-> TerminatedException]
    ELSE LET i == FirstIndex({k \in Indices(messages) : TextMessageTermination_matches(self, messages[k])})
         IN  IF i # 0
             THEN [self |-> [self EXCEPT !._terminated = TRUE],
                   out |-> Return(StopMessage("Text message received from '{}'",
                                              <<messages[i].source>>,
                                              "TextMessageTermination"))]
             ELSE [self |-> self, out |-> Return(None)]

TextMessageTermination_reset(self) == [self EXCEPT !._terminated = FALSE]

TextMessageTermination_to_config(self) ==
    [schema |-> "TextMessageTerminationConfig", source |-> self._source]

TextMessageTermination_from_config(config) == TextMessageTermination_init(config.source)

(***************************************************************************)
(* FunctionCallTermination                                                 *)
(***************************************************************************)
FunctionCallTermination_init(function_name) ==
    [cls |-> "FunctionCallTermination", _terminated |-> FALSE,
     _function_name |-> function_name]

FunctionCallTermination_terminated(self) == self._terminated

\* the inner loop finds an execution of the function in the event's content
FunctionCallTermination_matches(self, m) ==
    m.type = "ToolCallExecutionEvent" /\ InSeq(self._function_name, m.content)

FunctionCallTermination_call(self, messages) ==
    IF self._terminated THEN [self |-> self, out |-> TerminatedException]
    ELSE IF FirstIndex({k \in Indices(messages) : FunctionCallTermination_matches(self, messages[k])}) # 0
    THEN [self |-> [self EXCEPT !._terminated = TRUE],
          out |-> Return(StopMessage("Function '{}' was executed.",
                                     <<self._function_name>>, "FunctionCallTermination"))]
    ELSE [self |-> self, out |-> Return(None)]

FunctionCallTermination_reset(self) == [self EXCEPT !._terminated = FALSE]

FunctionCallTermination_to_config(self) ==
    [schema |-> "FunctionCallTerminationConfig", function_name |-> self._function_name]

FunctionCallTermination_from_config(config) ==
    FunctionCallTermination_init(config.function_name)

(***************************************************************************)
(* The interface of TerminationCondition, dispatched on the class.         *)
(***************************************************************************)
\* the `terminated` property
Terminated(self) ==
    CASE self.cls = "StopMessageTermination" -> StopMessageTermination_terminated(self)
      [] self.cls = "MaxMessageTermination" -> MaxMessageTermination_terminated(self)
      [] self.cls = "TextMentionTermination" -> TextMentionTermination_terminated(self)
      [] self.cls = "FunctionalTermination" -> FunctionalTermination_terminated(self)
      [] self.cls = "TokenUsageTermination" -> TokenUsageTermination_terminated(self)
      [] self.cls = "HandoffTermination" -> HandoffTermination_terminated(self)
      [] self.cls = "TimeoutTermination" -> TimeoutTermination_terminated(self)
      [] self.cls = "ExternalTermination" -> ExternalTermination_terminated(self)
      [] self.cls = "SourceMatchTermination" -> SourceMatchTermination_terminated(self)
      [] self.cls = "TextMessageTermination" -> TextMessageTermination_terminated(self)
      [] self.cls = "FunctionCallTermination" -> FunctionCallTermination_terminated(self)

\* await self(messages), with the clock reading `clock`
Call(self, messages, clock) ==
    CASE self.cls = "StopMessageTermination" -> StopMessageTermination_call(self, messages)
      [] self.cls = "MaxMessageTermination" -> MaxMessageTermination_call(self, messages)
      [] self.cls = "TextMentionTermination" -> TextMentionTermination_call(self, messages)
      [] self.cls = "FunctionalTermination" -> FunctionalTermination_call(self, messages)
      [] self.cls = "TokenUsageTermination" -> TokenUsageTermination_call(self, messages)
      [] self.cls = "HandoffTermination" -> HandoffTermination_call(self, messages)
      [] self.cls = "TimeoutTermination" -> TimeoutTermination_call(self, messages, clock)
      [] self.cls = "ExternalTermination" -> ExternalTermination_call(self, messages)
      [] self.cls = "SourceMatchTermination" -> SourceMatchTermination_call(self, messages)
      [] self.cls = "TextMessageTermination" -> TextMessageTermination_call(self, messages)
      [] self.cls = "FunctionCallTermination" -> FunctionCallTermination_call(self, messages)

\* await self.reset(), with the clock reading `clock`
ResetOf(self, clock) ==
    CASE self.cls = "StopMessageTermination" -> StopMessageTermination_reset(self)
      [] self.cls = "MaxMessageTermination" -> MaxMessageTermination_reset(self)
      [] self.cls = "TextMentionTermination" -> TextMentionTermination_reset(self)
      [] self.cls = "FunctionalTermination" -> FunctionalTermination_reset(self)
      [] self.cls = "TokenUsageTermination" -> TokenUsageTermination_reset(self)
      [] self.cls = "HandoffTermination" -> HandoffTermination_reset(self)
      [] self.cls = "TimeoutTermination" -> TimeoutTermination_reset(self, clock)
      [] self.cls = "ExternalTermination" -> ExternalTermination_reset(self)
      [] self.cls = "SourceMatchTermination" -> SourceMatchTermination_reset(self)
      [] self.cls = "TextMessageTermination" -> TextMessageTermination_reset(self)
      [] self.cls = "FunctionCallTermination" -> FunctionCallTermination_reset(self)

\* the classes that are a Component: FunctionalTermination is not
Serializable(self) == self.cls # "FunctionalTermination"

\* self._to_config()
ToConfig(self) ==
    CASE self.cls = "StopMessageTermination" -> StopMessageTermination_to_config(self)
      [] self.cls = "MaxMessageTermination" -> MaxMessageTermination_to_config(self)
      [] self.cls = "TextMentionTermination" -> TextMentionTermination_to_config(self)
      [] self.cls = "TokenUsageTermination" -> TokenUsageTermination_to_config(self)
      [] self.cls = "HandoffTermination" -> HandoffTermination_to_config(self)
      [] self.cls = "TimeoutTermination" -> TimeoutTermination_to_config(self)
      [] self.cls = "ExternalTermination" -> ExternalTermination_to_config(self)
      [] self.cls = "SourceMatchTermination" -> SourceMatchTermination_to_config(self)
      [] self.cls = "TextMessageTermination" -> TextMessageTermination_to_config(self)
      [] self.cls = "FunctionCallTermination" -> FunctionCallTermination_to_config(self)

\* cls._from_config(config), the class being the one of the configuration's schema
FromConfig(config, clock) ==
    CASE config.schema = "StopMessageTerminationConfig" ->
            StopMessageTermination_from_config(config)
      [] config.schema = "MaxMessageTerminationConfig" ->
            MaxMessageTermination_from_config(config)
      [] config.schema = "TextMentionTerminationConfig" ->
            TextMentionTermination_from_config(config)
      [] config.schema = "TokenUsageTerminationConfig" ->
            TokenUsageTermination_from_config(config).value
      [] config.schema = "HandoffTerminationConfig" ->
            HandoffTermination_from_config(config)
      [] config.schema = "TimeoutTerminationConfig" ->
            TimeoutTermination_from_config(config, clock)
      [] config.schema = "ExternalTerminationConfig" ->
            ExternalTermination_from_config(config)
      [] config.schema = "SourceMatchTerminationConfig" ->
            SourceMatchTermination_from_config(config)
      [] config.schema = "TextMessageTerminationConfig" ->
            TextMessageTermination_from_config(config)
      [] config.schema = "FunctionCallTerminationConfig" ->
            FunctionCallTermination_from_config(config)

\* the instance the constructor of self's class builds from self's own parameters
Pristine(self, clock) ==
    CASE self.cls = "StopMessageTermination" -> StopMessageTermination_init
      [] self.cls = "MaxMessageTermination" ->
            MaxMessageTermination_init(self._max_messages, self._include_agent_event)
      [] self.cls = "TextMentionTermination" ->
            TextMentionTermination_init(self._termination_text, self._sources)
      [] self.cls = "FunctionalTermination" ->
            FunctionalTermination_init(self._func, self._is_coroutine)
      [] self.cls = "TokenUsageTermination" ->
            TokenUsageTermination_init(self._max_total_token, self._max_prompt_token,
                                       self._max_completion_token).value
      [] self.cls = "HandoffTermination" -> HandoffTermination_init(self._target)
      [] self.cls = "TimeoutTermination" ->
            TimeoutTermination_init(self._timeout_seconds, clock)
      [] self.cls = "ExternalTermination" -> ExternalTermination_init
      [] self.cls = "SourceMatchTermination" -> SourceMatchTermination_init(self._sources)
      [] self.cls = "TextMessageTermination" -> TextMessageTermination_init(self._source)
      [] self.cls = "FunctionCallTermination" ->
            FunctionCallTermination_init(self._function_name)

(***************************************************************************)
(* The instances the model constructs: every class, with its constructor   *)
(* arguments drawn from small sets.  `clock` is the clock at construction. *)
(***************************************************************************)
\* a ceiling of a TokenUsageTermination: absent, 0, or the largest of the model
TokenCeilings == Optional({0, MaxToken})

Constructed(clock) ==
    {StopMessageTermination_init}
    \cup {MaxMessageTermination_init(n, e) : n \in 0..MaxCeiling, e \in BOOLEAN}
    \cup {TextMentionTermination_init(t, srcs) :
            t \in {<<"DONE">>, <<"hi">>},
            srcs \in {None, Some(<<"agentA">>), Some(<<"agentB">>)}}
    \cup {FunctionalTermination_init(f, co) : f \in Funcs, co \in BOOLEAN}
    \cup {r.value : r \in {c \in {TokenUsageTermination_init(t, p, c) :
                                    t \in TokenCeilings, p \in TokenCeilings,
                                    c \in TokenCeilings} : c.tag = "return"}}
    \cup {HandoffTermination_init(t) : t \in {"user", "admin"}}
    \cup {TimeoutTermination_init(t, clock) : t \in 0..MaxTimeout}
    \cup {ExternalTermination_init}
    \cup {SourceMatchTermination_init(srcs) :
            srcs \in {<<"agentA">>, <<"agentB">>, <<"agentA", "agentB">>}}
    \cup {TextMessageTermination_init(src) : src \in Optional(Sources)}
    \cup {FunctionCallTermination_init(f) : f \in {"f", "h"}}

(***************************************************************************)
(* State.                                                                  *)
(***************************************************************************)
VARIABLES
    self,      \* the termination condition under study
    now,       \* time.monotonic()
    ret,       \* the last operation on `self` and its outcome
    hist,      \* what has happened since construction or the last reset
    rebuilt,   \* the instance _from_config(self._to_config()), and its last outcome
    replay,    \* a recorded run of `self` and its replay after reset
    awaiting   \* the calls of `self` suspended at `await self._func(messages)`

vars == <<self, now, ret, hist, rebuilt, replay, awaiting>>

\* a stop directive was returned
Fires(out) == out.tag = "return" /\ out.value # None

\* whether the running token totals stay within the model's cap
WithinCap(s) ==
    s.cls = "TokenUsageTermination" =>
        /\ s._prompt_token_count <= MaxUsage
        /\ s._completion_token_count <= MaxUsage

\* the classes that fire on the first message of the batch that qualifies
StatelessTrigger(s) ==
    s.cls \in {"StopMessageTermination", "TextMentionTermination", "HandoffTermination",
               "SourceMatchTermination", "TextMessageTermination",
               "FunctionCallTermination"}

\* the condition under which the loop of __call__ returns at message m
Matches(s, m) ==
    CASE s.cls = "StopMessageTermination" -> m.type = "StopMessage"
      [] s.cls = "TextMentionTermination" -> TextMentionTermination_matches(s, m)
      [] s.cls = "HandoffTermination" -> HandoffTermination_matches(s, m)
      [] s.cls = "SourceMatchTermination" -> InSeq(m.source, s._sources)
      [] s.cls = "TextMessageTermination" -> TextMessageTermination_matches(s, m)
      [] s.cls = "FunctionCallTermination" -> FunctionCallTermination_matches(s, m)
      [] OTHER -> FALSE

\* the indices of the messages of the batch that qualify
Hits(s, messages) == {k \in Indices(messages) : Matches(s, messages[k])}

\* the number of messages of the batch a MaxMessageTermination counts
Qualifying(s, messages) ==
    IF s.cls # "MaxMessageTermination" THEN 0
    ELSE IF s._include_agent_event THEN Len(messages)
    ELSE Len(messages)
            - Cardinality({i \in 1..Len(messages) :
                            messages[i].type = "ToolCallExecutionEvent"})

\* a message from a source of the allow-list (any source when there is no
\* allow-list) whose rendering contains the text
Listed(s, m) ==
    /\ s._sources = None \/ m.source \in {Get(s._sources)[i] : i \in 1..Len(Get(s._sources))}
    /\ Contains(s._termination_text, m.text)

\* a message from a source outside the allow-list whose rendering contains the text
Unlisted(s, m) ==
    /\ s._sources # None
    /\ m.source \notin {Get(s._sources)[i] : i \in 1..Len(Get(s._sources))}
    /\ Contains(s._termination_text, m.text)

RECURSIVE PromptSum(_, _)
\* the prompt tokens of the usage records of messages[1..n]
PromptSum(messages, n) ==
    IF n = 0 THEN 0
    ELSE PromptSum(messages, n - 1)
            + (IF messages[n].models_usage = None THEN 0
               ELSE Get(messages[n].models_usage).prompt_tokens)

RECURSIVE CompletionSum(_, _)
\* the completion tokens of the usage records of messages[1..n]
CompletionSum(messages, n) ==
    IF n = 0 THEN 0
    ELSE CompletionSum(messages, n - 1)
            + (IF messages[n].models_usage = None THEN 0
               ELSE Get(messages[n].models_usage).completion_tokens)

\* what is kept of the batch given to a __call__ on `s`:
\*   empty    - the batch holds no message
\*   hits     - the number of its messages that qualify (first-match classes)
\*   counted  - MaxMessageTermination: the number of its messages that count
\*   first    - the first of them in batch order
\*   listed   - TextMentionTermination: a message from an allowed source holds the text
\*   unlisted - TextMentionTermination: a message from another source holds the text
\*   func     - FunctionalTermination: the outcome of the user's function on
\*              the batch, when the call gets to it
Digest(s, messages) ==
    [empty |-> Len(messages) = 0,
     hits |-> Cardinality(Hits(s, messages)),
     counted |-> Qualifying(s, messages),
     first |-> IF Hits(s, messages) = {} THEN None
               ELSE Some(messages[FirstIndex(Hits(s, messages))]),
     listed |-> s.cls = "TextMentionTermination"
                    /\ \E k \in Indices(messages) : Listed(s, messages[k]),
     unlisted |-> s.cls = "TextMentionTermination"
                    /\ \E k \in Indices(messages) : Unlisted(s, messages[k]),
     func |-> IF s.cls = "FunctionalTermination" /\ ~s._terminated
              THEN Some(FuncApply(s._func, messages)) ELSE None]

\* the digest of an operation that takes no batch
NoArg ==
    [empty |-> TRUE, hits |-> 0, counted |-> 0, first |-> None, listed |-> FALSE, unlisted |-> FALSE,
     func |-> None]

\* nothing has happened yet
Fresh ==
    [fired |-> FALSE, armed |-> FALSE, late |-> FALSE, stale |-> FALSE,
     streak |-> 0, seen |-> 0, prompt |-> 0, completion |-> 0, stops |-> 0,
     threw |-> FALSE, epoch |-> 0]

\* the history since construction or the last reset:
\*   fired  - a __call__ returned a stop directive
\*   armed  - set() was called
\*   late   - set() was called while the condition was terminated
\*   stale  - before the last reset, set() was called while the condition was terminated
\*   streak - the number of calls so far, when each was given exactly one
\*            counted message; -1 otherwise
\*   seen   - the number of counted messages given to calls that did not raise
\*   prompt, completion - TokenUsageTermination: the prompt and completion
\*            tokens of the usage records given to calls that did not raise
\*   stops  - the number of stop directives returned
\*   threw  - a __call__ raised the exception of the user's function
\*   epoch  - TimeoutTermination: the clock at construction or at the last reset
AfterCall(h, s, messages, out) ==
    LET q == Qualifying(s, messages)
        counted == s.cls = "TokenUsageTermination" /\ out.tag = "return"
    IN  [h EXCEPT !.fired = @ \/ Fires(out),
                  !.streak = IF @ >= 0 /\ @ <= MaxCeiling /\ q = 1 THEN @ + 1 ELSE -1,
                  !.seen = IF out.tag = "return" THEN @ + q ELSE @,
                  !.prompt = IF counted THEN @ + PromptSum(messages, Len(messages)) ELSE @,
                  !.completion =
                      IF counted THEN @ + CompletionSum(messages, Len(messages)) ELSE @,
                  !.stops = IF Fires(out) THEN @ + 1 ELSE @,
                  !.threw = @ \/ (out.tag = "raise" /\ out # TerminatedException)]

\* the history after a reset at clock `clock`
AfterReset(h, s, clock) ==
    [Fresh EXCEPT !.stale = h.late,
                  !.epoch = IF s.cls = "TimeoutTermination" THEN clock ELSE 0]

Init ==
    /\ now = 0
    /\ self \in Constructed(0)
    /\ ret = [op |-> "init", arg |-> NoArg, out |-> Return(None)]
    /\ hist = Fresh
    /\ rebuilt = None
    /\ replay = None
    /\ awaiting = <<>>

\* result = await self(messages), with the clock reading `clock`
DoEvaluate(messages, clock) ==
    LET r == Call(self, messages, clock)
    IN  /\ WithinCap(r.self)
        /\ self' = r.self
        /\ ret' = [op |-> "call", arg |-> Digest(self, messages), out |-> r.out]
        /\ hist' = AfterCall(hist, self, messages, r.out)

\* await self.reset()
DoReset ==
    /\ self' = ResetOf(self, now)
    /\ ret' = [op |-> "reset", arg |-> NoArg, out |-> Return(None)]
    /\ hist' = AfterReset(hist, self, now)

\* self.set(), of ExternalTermination alone
DoSet ==
    /\ self.cls = "ExternalTermination"
    /\ self' = ExternalTermination_set(self)
    /\ ret' = [op |-> "set", arg |-> NoArg, out |-> Return(None)]
    /\ hist' = [hist EXCEPT !.armed = TRUE, !.late = @ \/ Terminated(self)]

\* the monotonic clock advances
DoTick ==
    /\ now < MaxClock
    /\ now' = now + 1
    /\ ret' = [op |-> "tick", arg |-> NoArg, out |-> Return(None)]
    /\ UNCHANGED <<self, hist>>

Evaluate(messages) ==
    /\ DoEvaluate(messages, now)
    /\ UNCHANGED <<now, rebuilt, replay, awaiting>>

Reset ==
    /\ DoReset
    /\ UNCHANGED <<now, rebuilt, replay, awaiting>>

SetExternal ==
    /\ DoSet
    /\ UNCHANGED <<now, rebuilt, replay, awaiting>>

Tick ==
    /\ DoTick
    /\ UNCHANGED <<rebuilt, replay, awaiting>>

Next ==
    \/ \E messages \in Batches : Evaluate(messages)
    \/ Reset
    \/ SetExternal
    \/ Tick

Spec == Init /\ [][Next]_vars

(***************************************************************************)
(* Round trip through the configuration.  After any run of `self`, the     *)
(* instance is reset and a second instance is built from its configuration *)
(* (Rebuild); from then on every operation is applied to both.             *)
(***************************************************************************)
Rebuild ==
    /\ rebuilt = None
    /\ Serializable(self)
    /\ DoReset
    /\ rebuilt' = Some([self |-> FromConfig(ToConfig(self), now),
                        ret |-> [op |-> "init", out |-> Return(None)]])
    /\ UNCHANGED <<now, replay, awaiting>>

BothEvaluate(messages) ==
    /\ rebuilt # None
    /\ DoEvaluate(messages, now)
    /\ LET q == Call(Get(rebuilt).self, messages, now)
       IN  /\ WithinCap(q.self)
           /\ rebuilt' = Some([self |-> q.self, ret |-> [op |-> "call", out |-> q.out]])
    /\ UNCHANGED <<now, replay, awaiting>>

BothSet ==
    /\ rebuilt # None
    /\ DoSet
    /\ rebuilt' = Some([self |-> ExternalTermination_set(Get(rebuilt).self),
                        ret |-> [op |-> "set", out |-> Return(None)]])
    /\ UNCHANGED <<now, replay, awaiting>>

BothTick ==
    /\ rebuilt # None
    /\ DoTick
    /\ rebuilt' = Some([Get(rebuilt) EXCEPT !.ret = [op |-> "tick", out |-> Return(None)]])
    /\ UNCHANGED <<replay, awaiting>>

NextRoundTrip ==
    \/ (rebuilt = None /\ Next)
    \/ Rebuild
    \/ \E messages \in Batches : BothEvaluate(messages)
    \/ BothSet
    \/ BothTick

SpecRoundTrip == Init /\ [][NextRoundTrip]_vars

(***************************************************************************)
(* Record and replay.  A run of `self` from construction is recorded,      *)
(* operation by operation, with the clock offset of each operation from    *)
(* the start of the run and its outcome (Rec...).  Once a call has         *)
(* returned a stop directive the instance is reset (StartReplay) and the   *)
(* recorded operations are applied again at the same offsets from the      *)
(* reset (ReplayStep), their outcomes being kept next to the recorded      *)
(* ones.  The batches of a recorded run hold at most one message.          *)
(***************************************************************************)
ReplayBatches == {b \in Batches : Len(b) <= 1}

Recording == replay # None /\ Get(replay).idx = 0 /\ ~hist.fired

Record(op, arg) ==
    replay' = Some([Get(replay) EXCEPT
                        !.trace = Append(@, [op |-> op, arg |-> arg,
                                             dt |-> now - Get(replay).base,
                                             out |-> ret'.out])])

InitReplay ==
    /\ now = 0
    /\ self \in Constructed(0)
    /\ ret = [op |-> "init", arg |-> NoArg, out |-> Return(None)]
    /\ hist = Fresh
    /\ rebuilt = None
    /\ replay = Some([trace |-> <<>>, idx |-> 0, base |-> 0, outs |-> <<>>])
    /\ awaiting = <<>>

RecEvaluate(messages) ==
    /\ Recording
    /\ Len(Get(replay).trace) < MaxTrace
    /\ DoEvaluate(messages, now)
    /\ Record("call", messages)
    /\ UNCHANGED <<now, rebuilt, awaiting>>

RecSet ==
    /\ Recording
    /\ Len(Get(replay).trace) < MaxTrace
    /\ DoSet
    /\ Record("set", <<>>)
    /\ UNCHANGED <<now, rebuilt, awaiting>>

\* the clock is read by TimeoutTermination alone
RecTick ==
    /\ Recording
    /\ self.cls = "TimeoutTermination"
    /\ DoTick
    /\ UNCHANGED <<rebuilt, replay, awaiting>>

StartReplay ==
    /\ replay # None
    /\ Get(replay).idx = 0
    /\ hist.fired
    /\ DoReset
    /\ replay' = Some([Get(replay) EXCEPT !.idx = 1, !.base = now])
    /\ UNCHANGED <<now, rebuilt, awaiting>>

ReplayStep ==
    /\ replay # None
    /\ Get(replay).idx >= 1
    /\ Get(replay).idx <= Len(Get(replay).trace)
    /\ LET e == Get(replay).trace[Get(replay).idx]
       IN  /\ now' = Get(replay).base + e.dt
           /\ IF e.op = "call" THEN DoEvaluate(e.arg, now') ELSE DoSet
           /\ replay' = Some([Get(replay) EXCEPT !.idx = @ + 1,
                                                 !.outs = Append(@, ret'.out)])
    /\ UNCHANGED <<rebuilt, awaiting>>

NextReplay ==
    \/ \E messages \in ReplayBatches : RecEvaluate(messages)
    \/ RecSet
    \/ RecTick
    \/ StartReplay
    \/ ReplayStep

SpecReplay == InitReplay /\ [][NextReplay]_vars

(***************************************************************************)
(* Properties.                                                             *)
(***************************************************************************)

\* C1: one-shot.  Once a __call__ has returned a stop directive, every later
\* __call__ on the instance with no reset() in between raises
\* TerminatedException, whatever the batch and whatever the class.
C1_OneShot ==
    [][(hist.fired /\ ret'.op = "call") => ret'.out = TerminatedException]_vars

\* a call was rejected after the condition had fired
C1_Witness ==
    /\ hist.fired
    /\ ret.op = "call"
    /\ ret.out = TerminatedException
    /\ self.cls = "TokenUsageTermination"

\* C2 as claimed: serialization round trip.  The instance built from the
\* configuration of a condition and the freshly reset condition return the
\* same result (None or the same stop directive) at every step of every
\* sequence of calls.
C2_RoundTrip ==
    (rebuilt # None /\ ret.op = "call") => Get(rebuilt).ret.out = ret.out

\* C3: reset restores virgin behaviour.  When a run of operations from
\* construction ends with a call that returns a stop directive, then after
\* reset() the same operations at the same clock offsets have the same
\* outcomes, step by step: None where the run returned None and the same
\* stop directive at the last step.
C3_ReplayReproduces ==
    replay # None =>
        \A i \in 1..Len(Get(replay).outs) :
            Get(replay).outs[i] = Get(replay).trace[i].out

\* a run of three operations was replayed to its end, the first call of the
\* run having returned None and the last a stop directive
C3_Witness ==
    /\ replay # None
    /\ Len(Get(replay).trace) = MaxTrace
    /\ Len(Get(replay).outs) = MaxTrace
    /\ Get(replay).outs[1] = Return(None)
    /\ Fires(Get(replay).outs[MaxTrace])

\* C4 as claimed: right after reset() the `terminated` property is false and
\* the instance equals a newly constructed one, for every configuration the
\* constructor accepts.
C4_ResetClears ==
    ret.op = "reset" => (~Terminated(self) /\ self = Pristine(self, now))

\* C5: `terminated` is stable without reset.  A step that is not a reset()
\* never takes the `terminated` property from true to false.
C5_TerminatedStable ==
    [][(Terminated(self) /\ ret'.op # "reset") => Terminated(self')]_vars

\* a terminated condition has gone through a rejected call and is still terminated
C5_Witness ==
    /\ Terminated(self)
    /\ ret.op = "call"
    /\ ret.out = TerminatedException
    /\ self.cls = "StopMessageTermination"

\* C6 as claimed: for every configuration the constructor accepts, a
\* __call__ raises TerminatedException only if an earlier __call__ on the
\* instance returned a stop directive with no reset() since; so the first
\* call on a new instance does not raise.
C6_RaisesOnlyAfterFiring ==
    (ret.op = "call" /\ ret.out = TerminatedException) => hist.fired

\* C7: the return value agrees with the `terminated` property.  After a
\* __call__ that returned, the result is a stop directive if and only if
\* `terminated` is true, and None if and only if it is false.
C7_ReturnAgrees ==
    (ret.op = "call" /\ ret.out.tag = "return") =>
        /\ Fires(ret.out) <=> Terminated(self)
        /\ ret.out.value = None <=> ~Terminated(self)

\* a call has just returned a stop directive and the condition is terminated
C7_Witness ==
    /\ ret.op = "call"
    /\ Fires(ret.out)
    /\ Terminated(self)
    /\ self.cls = "TimeoutTermination"

\* C8: the external flag is observed by the next __call__.  A __call__ on an
\* ExternalTermination that is not terminated returns the stop directive if
\* and only if set() was called since construction or the last reset().
C8_ExternalObserved ==
    [][(/\ self.cls = "ExternalTermination"
        /\ ~Terminated(self)
        /\ ret'.op = "call")
       => /\ Fires(ret'.out) <=> hist.armed
          /\ ret'.out.tag = "return"]_vars

\* the call that followed a set() returned the stop directive
C8_Witness ==
    /\ self.cls = "ExternalTermination"
    /\ ret.op = "call"
    /\ Fires(ret.out)
    /\ hist.armed
    /\ ~hist.late

\* C9: set() after the trigger is a no-op latch.  A set() on a terminated
\* ExternalTermination leaves it terminated, every __call__ after it and
\* before the reset raises TerminatedException, and after that reset a
\* __call__ does not fire unless set() was called again since.
C9_LateSetIsNoOp ==
    [][/\ (self.cls = "ExternalTermination" /\ Terminated(self) /\ ret'.op = "set")
            => Terminated(self')
       /\ (hist.late /\ ret'.op = "call") => ret'.out = TerminatedException
       /\ (hist.stale /\ ~hist.armed /\ ret'.op = "call") => ret'.out = Return(None)]_vars

\* set() was called on a terminated condition, the condition was reset, and
\* the next call returned None
C9_Witness ==
    /\ self.cls = "ExternalTermination"
    /\ hist.stale
    /\ ~hist.armed
    /\ ret.op = "call"
    /\ ret.out = Return(None)

\* C10: message-count boundary.  A MaxMessageTermination with ceiling N >= 1
\* given exactly one counted message per call returns None on calls 1..N-1
\* and, on call N, a stop directive that reports a count >= N; and in
\* general a call fires exactly when the counted messages seen so far reach
\* the ceiling, which happens once.
C10_CountBoundary ==
    (self.cls = "MaxMessageTermination" /\ self._max_messages >= 1) =>
        /\ (ret.op = "call" /\ hist.streak >= 1 /\ hist.streak < self._max_messages)
                => ret.out = Return(None)
        /\ (ret.op = "call" /\ hist.streak = self._max_messages)
                => /\ Fires(ret.out)
                   /\ Get(ret.out.value).content.args[2] >= self._max_messages
        /\ (ret.op = "call" /\ ret.out.tag = "return")
                => (Fires(ret.out) <=> hist.seen >= self._max_messages)
        /\ hist.fired <=> hist.seen >= self._max_messages

\* the third of three one-message calls fired a ceiling of 3
C10_Witness ==
    /\ self.cls = "MaxMessageTermination"
    /\ self._max_messages = MaxCeiling
    /\ hist.streak = MaxCeiling
    /\ ret.op = "call"
    /\ Fires(ret.out)


(***************************************************************************)
(* Construction of a TokenUsageTermination.  The run starts before the     *)
(* constructor is called; `self` is None until __init__ has returned.      *)
(***************************************************************************)
InitConstruct ==
    /\ now = 0
    /\ self = None
    /\ ret = [op |-> "init", arg |-> NoArg, out |-> Return(None)]
    /\ hist = Fresh
    /\ rebuilt = None
    /\ replay = None
    /\ awaiting = <<>>

\* self = TokenUsageTermination(max_total_token, max_prompt_token, max_completion_token)
DoConstruct(max_total_token, max_prompt_token, max_completion_token) ==
    LET r == TokenUsageTermination_init(max_total_token, max_prompt_token,
                                        max_completion_token)
    IN  /\ self = None
        /\ ret.op = "init"
        /\ self' = IF r.tag = "return" THEN r.value ELSE None
        /\ ret' = [op |-> "new", arg |-> NoArg,
                   out |-> IF r.tag = "return" THEN Return(None) ELSE r,
                   ceilings |-> <<max_total_token, max_prompt_token, max_completion_token>>]

Construct(max_total_token, max_prompt_token, max_completion_token) ==
    /\ DoConstruct(max_total_token, max_prompt_token, max_completion_token)
    /\ UNCHANGED <<now, hist, rebuilt, replay, awaiting>>

EvaluateConstructed(messages) ==
    /\ self # None
    /\ Evaluate(messages)

ResetConstructed ==
    /\ self # None
    /\ Reset

NextConstruct ==
    \/ \E t, p, c \in TokenCeilings : Construct(t, p, c)
    \/ \E messages \in Batches : EvaluateConstructed(messages)
    \/ ResetConstructed

SpecConstruct == InitConstruct /\ [][NextConstruct]_vars

\* the ceilings of a TokenUsageTermination that the totals counted by the
\* history have reached
CeilingsReached(s, h) ==
    {c \in {"total", "prompt", "completion"} :
        CASE c = "total" -> s._max_total_token # None
                                /\ h.prompt + h.completion >= Get(s._max_total_token)
          [] c = "prompt" -> s._max_prompt_token # None
                                /\ h.prompt >= Get(s._max_prompt_token)
          [] c = "completion" -> s._max_completion_token # None
                                /\ h.completion >= Get(s._max_completion_token)}

\* C11: token-budget independence.  A __call__ on a TokenUsageTermination
\* that has returned no stop directive since construction or the last reset
\* returns the stop directive if and only if, with the batch added, the
\* running total of at least one configured ceiling (total, prompt or
\* completion) has reached that ceiling; a ceiling that is None never counts.
C11_TokenBudget ==
    (/\ self.cls = "TokenUsageTermination"
     /\ ret.op = "call"
     /\ hist.stops = (IF Fires(ret.out) THEN 1 ELSE 0))
        => (Fires(ret.out) <=> CeilingsReached(self, hist) # {})

\* C12: invalid configuration fails at construction.  The constructor of
\* TokenUsageTermination raises ValueError if and only if all three ceilings
\* are None; when it raises there is no instance, when it returns the
\* instance holds the ceilings given; and no later __call__ or reset raises
\* ValueError.
C12_InvalidConfiguration ==
    /\ ret.op = "new" =>
        /\ ret.out = Raise("ValueError") <=> ret.ceilings = <<None, None, None>>
        /\ ret.out.tag = "raise" => self = None
        /\ ret.out.tag = "return" =>
            /\ self # None
            /\ <<self._max_total_token, self._max_prompt_token,
                 self._max_completion_token>> = ret.ceilings
    /\ ret.op \in {"call", "reset"} => ret.out # Raise("ValueError")
    /\ self = None => ret.op \in {"init", "new"}

\* the constructor was called without any ceiling and raised; no instance exists
C12_Witness ==
    /\ ret.op = "new"
    /\ ret.ceilings = <<None, None, None>>
    /\ ret.out = Raise("ValueError")
    /\ self = None


\* C13: text-mention source filter.  A __call__ on a TextMentionTermination
\* that is not terminated returns, and returns the stop directive if and
\* only if the batch holds a message from a source of the allow-list (from
\* any source when there is no allow-list) whose rendering contains the
\* text; when only messages from other sources contain the text the call
\* returns None and the condition stays not terminated.
C13_SourceFilter ==
    [][(/\ self.cls = "TextMentionTermination"
        /\ ~Terminated(self)
        /\ ret'.op = "call")
       => /\ ret'.out.tag = "return"
          /\ Fires(ret'.out) <=> ret'.arg.listed
          /\ Terminated(self') <=> ret'.arg.listed
          /\ self._sources = None =>
                (Fires(ret'.out) <=> (ret'.arg.listed \/ ret'.arg.unlisted))]_vars

\* the batch held the text only in a message from a source outside the
\* allow-list; the call returned None and the condition is not terminated
C13_Witness ==
    /\ self.cls = "TextMentionTermination"
    /\ self._sources # None
    /\ ret.op = "call"
    /\ ret.arg.unlisted
    /\ ~ret.arg.listed
    /\ ret.out = Return(None)
    /\ ~Terminated(self)


\* C14: timeout firing condition.  A __call__ on a TimeoutTermination that
\* is not terminated returns, and returns the stop directive if and only if
\* the clock minus the start instant is at least the configured duration,
\* whatever the batch; so a duration of 0 fires on the next call, even on
\* the empty batch, and a duration that has not elapsed gives None.
C14_TimeoutFires ==
    [][(/\ self.cls = "TimeoutTermination"
        /\ ~Terminated(self)
        /\ ret'.op = "call")
       => /\ ret'.out.tag = "return"
          /\ Fires(ret'.out) <=> (now - self._start_time) >= self._timeout_seconds
          /\ ~Fires(ret'.out) <=> ret'.out = Return(None)
          /\ self._timeout_seconds = 0 => Fires(ret'.out)]_vars

\* a condition configured for 0 seconds fired on its first call, which was
\* given the empty batch
C14_Witness ==
    /\ self.cls = "TimeoutTermination"
    /\ self._timeout_seconds = 0
    /\ ret.op = "call"
    /\ ret.arg.empty
    /\ Fires(ret.out)
    /\ hist.stops = 1


\* the progress state of an instance: what its __call__, set and reset
\* change, as opposed to the parameters its constructor was given
Progress(s) ==
    CASE s.cls = "MaxMessageTermination" -> [_message_count |-> s._message_count]
      [] s.cls = "TokenUsageTermination" ->
            [_total_token_count |-> s._total_token_count,
             _prompt_token_count |-> s._prompt_token_count,
             _completion_token_count |-> s._completion_token_count]
      [] s.cls = "TimeoutTermination" ->
            [_terminated |-> s._terminated, _start_time |-> s._start_time]
      [] s.cls = "ExternalTermination" ->
            [_terminated |-> s._terminated, _setted |-> s._setted]
      [] OTHER -> [_terminated |-> s._terminated]

\* the progress state the constructors assign, the clock reading `clock`
InitialProgress(s, clock) ==
    CASE s.cls = "MaxMessageTermination" -> [_message_count |-> 0]
      [] s.cls = "TokenUsageTermination" ->
            [_total_token_count |-> 0, _prompt_token_count |-> 0,
             _completion_token_count |-> 0]
      [] s.cls = "TimeoutTermination" -> [_terminated |-> FALSE, _start_time |-> clock]
      [] s.cls = "ExternalTermination" -> [_terminated |-> FALSE, _setted |-> FALSE]
      [] OTHER -> [_terminated |-> FALSE]

\* the instance built by _from_config(self._to_config()) has its progress
\* state at the initial value, as the instance constructed directly has
RoundTripProgress ==
    Serializable(self) =>
        LET copy == FromConfig(ToConfig(self), now)
        IN  /\ Progress(copy) = InitialProgress(self, now)
            /\ Progress(copy) = Progress(Pristine(self, now))

\* C15: the round trip carries the configuration only, never the progress.
\* In every reachable state of a serializable condition, the instance built
\* by _from_config(self._to_config()) has its progress state at the initial
\* value (counts 0, flags false) and is identical to the instance
\* constructed directly with the parameters of `self`.
C15_RoundTripPristine ==
    /\ RoundTripProgress
    /\ Serializable(self) => FromConfig(ToConfig(self), now) = Pristine(self, now)


(***************************************************************************)
(* Calls of a FunctionalTermination that overlap.  When self._func is a    *)
(* coroutine function, __call__ is suspended at `await self._func(...)`    *)
(* and another __call__ on the same instance may start before it resumes.  *)
(* `awaiting` holds, for each suspended call, the outcome its function     *)
(* will deliver.  Suspended calls resume in any order.                     *)
(***************************************************************************)
InitOverlap ==
    /\ now = 0
    /\ self \in {FunctionalTermination_init(f, c) : f \in Funcs, c \in BOOLEAN}
    /\ ret = [op |-> "init", arg |-> NoArg, out |-> Return(None)]
    /\ hist = Fresh
    /\ rebuilt = None
    /\ replay = None
    /\ awaiting = <<>>

\* a __call__ that runs to its return without suspending: the condition is
\* terminated, or the function is not a coroutine function
EvaluateAtOnce(messages) ==
    /\ self._terminated \/ ~self._is_coroutine
    /\ Evaluate(messages)

\* a __call__ passes the test of self._terminated and is suspended at the await
BeginAwait(messages) ==
    /\ ~self._terminated
    /\ self._is_coroutine
    /\ Len(awaiting) < MaxAwait
    /\ awaiting' = Append(awaiting, FuncApply(self._func, messages))
    /\ ret' = [op |-> "await", arg |-> Digest(self, messages), out |-> Return(None)]
    /\ UNCHANGED <<self, now, hist, rebuilt, replay>>

\* the i-th suspended __call__ resumes with the outcome of its function and
\* runs to its return
DoResume(i) ==
    LET r == FunctionalTermination_finish(self, awaiting[i])
    IN  /\ self' = r.self
        /\ ret' = [op |-> "call", arg |-> [NoArg EXCEPT !.func = Some(awaiting[i])],
                   out |-> r.out]
        /\ hist' = AfterCall(hist, self, <<>>, r.out)
        /\ awaiting' = SubSeq(awaiting, 1, i - 1) \o SubSeq(awaiting, i + 1, Len(awaiting))

Resume(i) ==
    /\ i <= Len(awaiting)
    /\ DoResume(i)
    /\ UNCHANGED <<now, rebuilt, replay>>

\* await self.reset(), while no __call__ is suspended
ResetQuiescent ==
    /\ awaiting = <<>>
    /\ Reset

NextOverlap ==
    \/ \E messages \in Batches : EvaluateAtOnce(messages)
    \/ \E messages \in Batches : BeginAwait(messages)
    \/ \E i \in 1..MaxAwait : Resume(i)
    \/ ResetQuiescent

SpecOverlap == InitOverlap /\ [][NextOverlap]_vars

\* C16: at most one stop directive under overlapping calls.  For a
\* FunctionalTermination, the calls made since construction or the last
\* reset, overlapping at the await or not, return at most one stop directive.
C16_AtMostOneStop ==
    self.cls = "FunctionalTermination" => hist.stops <= 1


\* the message source named in the stop directive `out` of a class that names one
ReportedSource(s, out) ==
    CASE s.cls = "HandoffTermination" -> Some(Get(out.value).content.args[2])
      [] s.cls \in {"SourceMatchTermination", "TextMessageTermination"} ->
            Some(Get(out.value).content.args[1])
      [] OTHER -> None

\* C17: short-circuit on the first match.  When a __call__ on a
\* StopMessage-, TextMention-, Handoff-, SourceMatch-, TextMessage- or
\* FunctionCallTermination that is not terminated is given a batch with one
\* or more qualifying messages, it returns the stop directive determined by
\* the first of them in batch order (SourceMatch, Handoff and TextMessage
\* name that message's source): the result and the new state are those of a
\* call given that message alone, so the messages after it change neither.
C17_FirstMatch ==
    [][(/\ StatelessTrigger(self)
        /\ ~Terminated(self)
        /\ ret'.op = "call"
        /\ ret'.arg.hits >= 1)
       => /\ Fires(ret'.out)
          /\ Terminated(self')
          /\ ReportedSource(self, ret'.out) # None
                => ReportedSource(self, ret'.out) = Some(Get(ret'.arg.first).source)
          /\ ret'.out = Call(self, <<Get(ret'.arg.first)>>, now).out
          /\ self' = Call(self, <<Get(ret'.arg.first)>>, now).self]_vars

\* a SourceMatchTermination watching agentA and agentB was given a batch of
\* two qualifying messages and named agentB, the source of the first
C17_Witness ==
    /\ self.cls = "SourceMatchTermination"
    /\ self._sources = <<"agentA", "agentB">>
    /\ ret.op = "call"
    /\ ret.arg.hits = 2
    /\ Get(ret.arg.first).source = "agentB"
    /\ Fires(ret.out)
    /\ ReportedSource(self, ret.out) = Some("agentB")


\* C18: the message count is accumulated over the whole batch without
\* clamping.  A __call__ on a MaxMessageTermination that does not raise
\* adds to the counter the number of counted messages of the batch (all of
\* them when include_agent_event is true, the chat messages when it is
\* false), also when the ceiling is crossed inside the batch; the stop
\* directive reports the counter after the addition, which may be above
\* the ceiling.  A call that raises leaves the counter alone.
C18_CountUnclamped ==
    [][(/\ self.cls = "MaxMessageTermination"
        /\ ret'.op = "call")
       => /\ ret'.out.tag = "return" =>
                self'._message_count = self._message_count + ret'.arg.counted
          /\ ret'.out.tag = "raise" => self'._message_count = self._message_count
          /\ Fires(ret'.out) =>
                /\ Get(ret'.out.value).content.args[2] = self'._message_count
                /\ Get(ret'.out.value).content.args[1] = self._max_messages
                /\ self'._message_count >= self._max_messages]_vars

\* a batch of two counted messages crossed the ceiling at its first message;
\* both were counted and the stop directive reports ceiling + 1
C18_Witness ==
    /\ self.cls = "MaxMessageTermination"
    /\ self._max_messages >= 1
    /\ ret.op = "call"
    /\ ret.arg.counted = 2
    /\ Fires(ret.out)
    /\ self._message_count = self._max_messages + 1
    /\ Get(ret.out.value).content.args[2] = self._max_messages + 1


\* C19: the timeout window restarts at reset.  The start instant of a
\* TimeoutTermination is the clock at construction or at the latest reset,
\* whichever is later; a __call__ that returns fires if and only if the
\* clock minus that instant is at least the duration, however long ago the
\* condition was constructed or fired before.
C19_WindowRestarts ==
    self.cls = "TimeoutTermination" =>
        /\ self._start_time = hist.epoch
        /\ hist.epoch <= now
        /\ ret.op = "reset" => self._start_time = now /\ ~Terminated(self)
        /\ (ret.op = "call" /\ ret.out.tag = "return") =>
                (Fires(ret.out) <=> now - hist.epoch >= self._timeout_seconds)

\* a condition reset later than its duration after construction was called
\* within the new window and returned None
C19_Witness ==
    /\ self.cls = "TimeoutTermination"
    /\ self._timeout_seconds >= 1
    /\ hist.epoch >= self._timeout_seconds
    /\ now - hist.epoch < self._timeout_seconds
    /\ ret.op = "call"
    /\ ret.out = Return(None)


\* C20: exceptions of the user's function propagate and do not trigger.
\* When the function of a FunctionalTermination raises during a __call__,
\* the call raises that same exception and the instance is unchanged, so
\* not terminated; a later __call__ runs the function again and returns
\* according to its result instead of raising TerminatedException.
C20_ExceptionPropagates ==
    [][(/\ self.cls = "FunctionalTermination"
        /\ ~Terminated(self)
        /\ ret'.op = "call")
       => /\ ret'.arg.func # None
          /\ Get(ret'.arg.func).tag = "raise" =>
                /\ ret'.out = Get(ret'.arg.func)
                /\ ret'.out # TerminatedException
                /\ self' = self
                /\ ~Terminated(self')
          /\ (hist.threw /\ ~hist.fired) =>
                /\ ret'.out # TerminatedException
                /\ Fires(ret'.out) <=> ret'.arg.func = Some(Return(TRUE))
                /\ ret'.out = Return(None) <=> ret'.arg.func = Some(Return(FALSE))]_vars

\* after a call that raised the function's IndexError, a later call ran the
\* function again and returned the stop directive
C20_Witness ==
    /\ self.cls = "FunctionalTermination"
    /\ hist.threw
    /\ ret.op = "call"
    /\ ret.arg.func = Some(Return(TRUE))
    /\ Fires(ret.out)
    /\ hist.stops = 1


\* C21: the external latch is cleared by the trigger.  In every state where
\* an ExternalTermination is terminated and set() has not been called since
\* the call that fired, the pending flag _setted is false.
C21_LatchCleared ==
    (/\ self.cls = "ExternalTermination"
     /\ Terminated(self)
     /\ ~hist.late)
        => ~self._setted

\* C21 as amended: the call that fires leaves the pending flag set.  The
\* flag _setted of an ExternalTermination is true exactly when set() was
\* called since construction or the last reset; it is true in every state
\* where the condition is terminated, and it is reset() that clears it.
C21_LatchHeldUntilReset ==
    self.cls = "ExternalTermination" =>
        /\ self._setted <=> hist.armed
        /\ Terminated(self) => self._setted
        /\ (ret.op = "call" /\ Fires(ret.out)) => self._setted
        /\ ret.op = "reset" => (~self._setted /\ ~Terminated(self))

\* a call has just fired, set() has not been called since, and the pending
\* flag is still set
C21_Witness ==
    /\ self.cls = "ExternalTermination"
    /\ ret.op = "call"
    /\ Fires(ret.out)
    /\ Terminated(self)
    /\ ~hist.late
    /\ self._setted


\* C22: a rejected call changes nothing.  For every class, a __call__ on a
\* terminated condition raises TerminatedException whatever the batch, and
\* a __call__ that raises TerminatedException leaves every attribute of the
\* instance as it was (message count, the three token totals, start
\* instant, pending flag, stored terminated flag): the batch of a rejected
\* call is not added to the accumulators.
C22_RejectedCallChangesNothing ==
    [][(ret'.op = "call")
       => /\ Terminated(self) => ret'.out = TerminatedException
          /\ ret'.out = TerminatedException =>
                /\ Terminated(self)
                /\ self' = self
                /\ Terminated(self')]_vars

\* a TokenUsageTermination that had fired was called with a batch of
\* messages; the call was rejected and the totals are those of the batches
\* given to the calls that returned
C22_Witness ==
    /\ self.cls = "TokenUsageTermination"
    /\ hist.fired
    /\ ret.op = "call"
    /\ ~ret.arg.empty
    /\ ret.out = TerminatedException
    /\ self._prompt_token_count = hist.prompt
    /\ self._completion_token_count = hist.completion
    /\ self._total_token_count = hist.prompt + hist.completion


\* C23: the token totals stay consistent.  In every reachable state of a
\* TokenUsageTermination the running total is the prompt total plus the
\* completion total, and each total is the sum over the usage records of
\* the messages given, since construction or the last reset, to the calls
\* that did not raise (a message without a usage record adds nothing); the
\* whole batch is added before the ceilings are tested, so the stop
\* directive reports the totals with the whole batch in them.
C23_TotalsConsistent ==
    self.cls = "TokenUsageTermination" =>
        /\ self._total_token_count = self._prompt_token_count + self._completion_token_count
        /\ self._prompt_token_count = hist.prompt
        /\ self._completion_token_count = hist.completion
        /\ ret.op = "reset" => self._total_token_count = 0
        /\ (ret.op = "call" /\ Fires(ret.out)) =>
                Get(ret.out.value).content.args
                    = <<hist.prompt + hist.completion, hist.prompt, hist.completion>>

\* a total ceiling of MaxToken was crossed before the last message of a
\* batch (no message carries more than 3 tokens) and the call that fired
\* reports the total with that message added
C23_Witness ==
    /\ self.cls = "TokenUsageTermination"
    /\ self._max_total_token = Some(MaxToken)
    /\ ret.op = "call"
    /\ Fires(ret.out)
    /\ self._total_token_count >= MaxToken + 3
    /\ Get(ret.out.value).content.args[1] = self._total_token_count

=============================================================================
